---- MODULE Spec2Model ----
(***************************************************************************)
(* Model of src/src/App.tsx: the two spiderfy layout functions             *)
(* (calculateSpiderfiedPositionsCircle, calculateSpiderfiedPositions) and  *)
(* the event handlers that drive the 'spiderfy' source of the map          *)
(* (centerMapToCluster, spiderFyCluster, deletePointsSpiderfy).            *)
(*                                                                         *)
(* JavaScript numbers are modelled in fixed point: angles and the values   *)
(* of Math.cos / Math.sin in units of 1/AngleScale, pixel lengths in units *)
(* of 1/LengthScale. Every division rounds to nearest, as IEEE-754 does.   *)
(***************************************************************************)
EXTENDS Integers, Sequences, FiniteSets, TLC

VARIABLES
    \* ---- the pure layout functions, run on one input (LayoutSpec) ----
    count,          \* the argument both layout functions are called with
    circle,         \* frame of calculateSpiderfiedPositionsCircle(count)
    spiral,         \* frame of calculateSpiderfiedPositions(count)
    \* ---- the map application (Spec) ----
    loaded,         \* the 'load' handler has run: sources and layers exist
    spiderfy,       \* features of the 'spiderfy' GeoJSON source
    circleOpacity,  \* 'clusters' circle-opacity, in percent
    iconOpacity,    \* 'unclustered-point' icon-opacity, in percent
    camera,         \* [center, zoom] as last requested through easeTo
    zoomRequests,   \* getClusterExpansionZoom calls whose callback is pending
    leafRequests,   \* getClusterLeaves calls whose callback is pending
    cleared,        \* history: deletePointsSpiderfy ran and no click since
    lastCall        \* history: the handler or callback that ran last

layoutVars == <<count, circle, spiral>>
appVars == <<loaded, spiderfy, circleOpacity, iconOpacity, camera,
             zoomRequests, leafRequests, cleared, lastCall>>
vars == <<count, circle, spiral, loaded, spiderfy, circleOpacity, iconOpacity,
          camera, zoomRequests, leafRequests, cleared, lastCall>>

-----------------------------------------------------------------------------
(* Bounds of the model *)

MinCountBelow == 2      \* counts range over -MinCountBelow .. MaxCount
MaxCount == 15
MaxLeaves == 12         \* leaves a getClusterLeaves callback may deliver
MaxZoomArg == 13        \* largest zoom a getClusterExpansionZoom callback reports
MaxPending == 1         \* callbacks of one kind that may be pending at once
Tolerance == 8          \* tolerance of a position, in 1/LengthScale pixels

-----------------------------------------------------------------------------
(* Fixed-point numbers *)

AngleScale == 10 * 1000         \* one radian; also the value 1.0 of cos/sin
LengthScale == 10 * 10          \* one pixel
PI == 31416                     \* Math.PI in 1/AngleScale
HALF_PI == PI \div 2
TWO_PI == 2 * PI

\* a / b rounded to nearest, for a >= 0 and b # 0
RoundDiv(a, b) ==
    IF b > 0 THEN (2 * a + b) \div (2 * b)
             ELSE -((2 * a - b) \div (-2 * b))

\* a / b of JavaScript: a division by zero is Infinity, not an exception
Infinity == [finite |-> FALSE, val |-> 0]
JsDiv(a, b) ==
    IF b = 0 THEN Infinity ELSE [finite |-> TRUE, val |-> RoundDiv(a, b)]

\* a * b / AngleScale for a product of two fixed-point values, b >= 0
MulScaled(a, b) ==
    IF a >= 0 THEN RoundDiv(a * b, AngleScale)
              ELSE -RoundDiv((-a) * b, AngleScale)

\* sin on [0, pi/2]: x - x^3/3! + x^5/5! - x^7/7! + x^9/9! - x^11/11!
SinQ(x) ==
    LET x2 == MulScaled(x, x)
        t3 == RoundDiv(MulScaled(x, x2), 6)
        t5 == RoundDiv(MulScaled(t3, x2), 20)
        t7 == RoundDiv(MulScaled(t5, x2), 42)
        t9 == RoundDiv(MulScaled(t7, x2), 72)
        t11 == RoundDiv(MulScaled(t9, x2), 110)
    IN  x - t3 + t5 - t7 + t9 - t11

\* cos on [0, pi/2]: 1 - x^2/2! + x^4/4! - x^6/6! + x^8/8! - x^10/10!
CosQ(x) ==
    LET x2 == MulScaled(x, x)
        t2 == RoundDiv(x2, 2)
        t4 == RoundDiv(MulScaled(t2, x2), 12)
        t6 == RoundDiv(MulScaled(t4, x2), 30)
        t8 == RoundDiv(MulScaled(t6, x2), 56)
        t10 == RoundDiv(MulScaled(t8, x2), 90)
    IN  AngleScale - t2 + t4 - t6 + t8 - t10

\* Math.sin(a), a in 1/AngleScale radians, result in 1/AngleScale
Sin(a) ==
    LET r == a % TWO_PI
    IN  IF r <= HALF_PI THEN SinQ(r)
        ELSE IF r <= PI THEN SinQ(PI - r)
        ELSE IF r <= PI + HALF_PI THEN -SinQ(r - PI)
        ELSE -SinQ(TWO_PI - r)

\* Math.cos(a), a in 1/AngleScale radians, result in 1/AngleScale
Cos(a) ==
    LET r == a % TWO_PI
    IN  IF r <= HALF_PI THEN CosQ(r)
        ELSE IF r <= PI THEN -CosQ(PI - r)
        ELSE IF r <= PI + HALF_PI THEN -CosQ(r - PI)
        ELSE CosQ(TWO_PI - r)

\* length * trig, a length in 1/LengthScale times a value in 1/AngleScale
Project(length, trig) ==
    IF trig >= 0 THEN RoundDiv(length * trig, AngleScale)
                 ELSE -RoundDiv(length * (-trig), AngleScale)

-----------------------------------------------------------------------------
(* calculateSpiderfiedPositionsCircle *)

\* a slip: a non-zero translation of every offset
leavesOffsetShifted == <<10 * LengthScale, 0>>

CircleLeavesSeparation == 80    \* const leavesSeparation = 80 (pixels)
leavesOffset == <<0, 0>>        \* const leavesOffset = [0, 0]

\* the locals after lines 204-208: theta = (2 * Math.PI) / count; angle = theta
CircleEntry(n) ==
    [ count  |-> n,
      theta  |-> JsDiv(TWO_PI, n),
      i      |-> 0,
      points |-> << >>,
      pc     |-> "loop" ]

\* a slip: the loop bound taken inclusive
CircleLoopTestInclusive(f) == f.i <= f.count

\* the loop condition of line 210
CircleLoopTest(f) == f.i < f.count

\* x of line 212
CircleX(angle) ==
    Project(CircleLeavesSeparation * LengthScale, Cos(angle)) + leavesOffset[1]

\* y of line 213
CircleY(angle) ==
    Project(CircleLeavesSeparation * LengthScale, Sin(angle)) + leavesOffset[2]

\* a slip: the angle left at its initial value theta (line 208)
CircleBodyStaleAngle(f) ==
    LET angle == f.theta.val
    IN  [f EXCEPT !.points = Append(@, <<CircleX(angle), CircleY(angle)>>),
                  !.i = @ + 1]

\* one iteration of the loop, lines 211-214 and the i += 1 of line 210.
\* The loop runs only for count >= 1, where theta is finite.
CircleBody(f) ==
    LET angle == f.theta.val * f.i
    IN  [f EXCEPT !.points = Append(@, <<CircleX(angle), CircleY(angle)>>),
                  !.i = @ + 1]

RECURSIVE CircleRun(_)
CircleRun(f) == IF CircleLoopTest(f) THEN CircleRun(CircleBody(f)) ELSE f

calculateSpiderfiedPositionsCircle(n) == CircleRun(CircleEntry(n)).points

-----------------------------------------------------------------------------
(* calculateSpiderfiedPositions *)

legLengthStart == 25            \* const legLengthStart = 25 (pixels)
legLengthFactor == 5            \* const legLengthFactor = 5 (pixels)
SpiralLeavesSeparation == 40    \* const leavesSeparation = 40 (pixels)
AngleDrift == 5                 \* the 0.0005 of line 229, in 1/AngleScale

\* the locals after lines 220-226
SpiralEntry(n) ==
    [ count     |-> n,
      legLength |-> legLengthStart * LengthScale,
      angle     |-> 0,
      i         |-> 0,
      points    |-> << >>,
      legs      |-> << >>,
      pc        |-> "loop" ]

\* a slip: the loop stops one leaf short
SpiralLoopTestOneShort(f) == f.i < f.count - 1

\* the loop condition of line 228
SpiralLoopTest(f) == f.i < f.count

\* line 229: angle += leavesSeparation / legLength + i * 0.0005
SpiralAngle(f) ==
    f.angle
    + RoundDiv(SpiralLeavesSeparation * LengthScale * AngleScale, f.legLength)
    + f.i * AngleDrift

\* a slip: = for += in line 234
SpiralGrowAssigned(legLength, angle) ==
    RoundDiv(TWO_PI * legLengthFactor * LengthScale, angle)

\* line 234: legLength += (Math.PI * 2 * legLengthFactor) / angle
SpiralGrow(legLength, angle) ==
    legLength + RoundDiv(TWO_PI * legLengthFactor * LengthScale, angle)

\* one iteration of the loop, lines 229-234 and the i += 1 of line 228.
\* legs is a history of the leg length each point was placed at.
SpiralBody(f) ==
    LET angle == SpiralAngle(f)
        x == Project(f.legLength, Cos(angle)) + leavesOffset[1]
        y == Project(f.legLength, Sin(angle)) + leavesOffset[2]
    IN  [f EXCEPT !.angle = angle,
                  !.points = Append(@, <<x, y>>),
                  !.legs = Append(@, f.legLength),
                  !.legLength = SpiralGrow(@, angle),
                  !.i = @ + 1]

RECURSIVE SpiralRun(_)
SpiralRun(f) == IF SpiralLoopTest(f) THEN SpiralRun(SpiralBody(f)) ELSE f

calculateSpiderfiedPositions(n) == SpiralRun(SpiralEntry(n)).points

-----------------------------------------------------------------------------
(* The layout functions run on one input *)

CircleIterate ==
    /\ circle.pc = "loop"
    /\ CircleLoopTest(circle)
    /\ circle' = CircleBody(circle)
    /\ UNCHANGED <<count, spiral>>
    /\ UNCHANGED appVars

\* line 216: return points
CircleReturn ==
    /\ circle.pc = "loop"
    /\ ~CircleLoopTest(circle)
    /\ circle' = [circle EXCEPT !.pc = "returned"]
    /\ UNCHANGED <<count, spiral>>
    /\ UNCHANGED appVars

SpiralIterate ==
    /\ spiral.pc = "loop"
    /\ SpiralLoopTest(spiral)
    /\ spiral' = SpiralBody(spiral)
    /\ UNCHANGED <<count, circle>>
    /\ UNCHANGED appVars

\* line 236: return points
SpiralReturn ==
    /\ spiral.pc = "loop"
    /\ ~SpiralLoopTest(spiral)
    /\ spiral' = [spiral EXCEPT !.pc = "returned"]
    /\ UNCHANGED <<count, circle>>
    /\ UNCHANGED appVars

-----------------------------------------------------------------------------
(* The map application *)

clusterMaxZoom == 12            \* const clusterMaxZoom = 12
LayoutThreshold == 10           \* features.length > 10
OpacityNormal == 100            \* opacity 1, in percent
OpacityDimClusters == 60        \* opacity 0.6, in percent
OpacityDimPoints == 50          \* opacity 0.5, in percent
\* the cluster_id of the clusters the rendered map shows
ClusterIds == {1, 2}

\* evt.lngLat of a click on cluster c
ClickLngLat(c) == [lng |-> 10 * c, lat |-> -10 * c]

\* mapOptions: center and zoom, in whole degrees and zoom levels
mapOptions == [center |-> [lng |-> -104, lat |-> 41], zoom |-> 2]

\* the k-th leaf getClusterLeaves delivers for cluster c: a GeoJSON point
\* feature of the earthquakes source, at its own coordinates
Leaf(c, k) ==
    [ type       |-> "Feature",
      properties |-> [mag |-> k % 8, id |-> 100 * c + k],
      geometry   |-> [type |-> "Point", coordinates |-> <<10 * c + k, k>>] ]

Leaves(c, n) == [k \in 1 .. n |-> Leaf(c, k)]

\* what a getClusterExpansionZoom callback may be called with: (err, zoom)
ZoomArgs == {0, 1, clusterMaxZoom, clusterMaxZoom + 1, MaxZoomArg}
ZoomOutcomes ==
    {[err |-> TRUE, hasZoom |-> FALSE, zoom |-> 0],
     [err |-> FALSE, hasZoom |-> FALSE, zoom |-> 0]}
    \cup {[err |-> FALSE, hasZoom |-> TRUE, zoom |-> z] : z \in ZoomArgs}

\* what a getClusterLeaves callback may be called with: (error, features)
LeafOutcomes(c) ==
    {[error |-> TRUE, hasFeatures |-> FALSE, features |-> << >>],
     [error |-> FALSE, hasFeatures |-> FALSE, features |-> << >>]}
    \cup {[error |-> FALSE, hasFeatures |-> TRUE, features |-> Leaves(c, n)] :
            n \in 0 .. MaxLeaves}

\* undefined, the value of an array read past its end
Undefined == << >>
At(seq, index) == IF index \in DOMAIN seq THEN seq[index] ELSE Undefined

\* { ...obj, ...extra } of JavaScript: the fields of obj, those of extra on top
Spread(obj, extra) ==
    [k \in DOMAIN obj \cup DOMAIN extra |->
        IF k \in DOMAIN extra THEN extra[k] ELSE obj[k]]

RemoveAt(seq, k) ==
    [j \in 1 .. Len(seq) - 1 |-> IF j < k THEN seq[j] ELSE seq[j + 1]]

\* a slip: >= for > in line 254
ChooseLayoutInclusive(n) == IF n >= LayoutThreshold THEN "spiral" ELSE "circle"

\* lines 253-256: features.length > 10 ? spiral : circle
ChooseLayout(n) == IF n > LayoutThreshold THEN "spiral" ELSE "circle"

spiderfiedPositions(n) ==
    IF ChooseLayout(n) = "spiral"
        THEN calculateSpiderfiedPositions(n)
        ELSE calculateSpiderfiedPositionsCircle(n)

\* spiderfiedPositions for every number of leaves a callback may deliver
Positions == [n \in 0 .. MaxLeaves |-> spiderfiedPositions(n)]

\* a slip: the offset read one place off
SpiderfyFeatureShifted(feature, positions, index, lngLat) ==
    Spread(feature,
           [ properties |-> Spread(feature.properties,
                                   [iconOffset |-> At(positions, index + 1)]),
             geometry   |-> Spread(feature.geometry,
                                   [type |-> "Point",
                                    coordinates |-> <<lngLat.lng, lngLat.lat>>]) ])

\* lines 261-272: one feature of the new collection
SpiderfyFeature(feature, positions, index, lngLat) ==
    Spread(feature,
           [ properties |-> Spread(feature.properties,
                                   [iconOffset |-> At(positions, index)]),
             geometry   |-> Spread(feature.geometry,
                                   [type |-> "Point",
                                    coordinates |-> <<lngLat.lng, lngLat.lat>>]) ])

\* lines 259-273: features.map((feature, index) => ...)
SpiderfyGeoJson(features, lngLat) ==
    LET positions == Positions[Len(features)]
    IN  [index \in 1 .. Len(features) |->
            SpiderfyFeature(features[index], positions, index, lngLat)]

\* lines 240-247: spiderFyCluster issues getClusterLeaves; its callback is pending
spiderFyCluster(requests, clusterId, lngLat) ==
    Append(requests, [clusterId |-> clusterId, lngLat |-> lngLat])

\* the test of line 186: !zoom
NoZoom(o) == ~o.hasZoom \/ o.zoom = 0

\* a slip: >= for > in line 187
ZoomAtLeastClusters(zoom) == zoom >= clusterMaxZoom

\* the test of line 187
ZoomBeyondClusters(zoom) == zoom > clusterMaxZoom

\* map.on('load'): createLayers, createSpiderFyLayers, addIconImages
Load ==
    /\ ~loaded
    /\ loaded' = TRUE
    /\ spiderfy' = << >>
    /\ circleOpacity' = OpacityNormal
    /\ iconOpacity' = OpacityNormal
    /\ lastCall' = [handler |-> "load"]
    /\ UNCHANGED <<camera, zoomRequests, leafRequests, cleared>>
    /\ UNCHANGED layoutVars

\* map.on('click', 'clusters'): centerMapToCluster up to getClusterExpansionZoom
centerMapToCluster ==
    /\ loaded
    /\ \E hit \in BOOLEAN, c \in ClusterIds :
        /\ hit => Len(zoomRequests) < MaxPending
        /\ zoomRequests' =
              IF hit THEN Append(zoomRequests,
                                 [clusterId |-> c, lngLat |-> ClickLngLat(c)])
                     ELSE zoomRequests
        /\ cleared' = IF hit THEN FALSE ELSE cleared
        /\ lastCall' = [handler |-> "click", hit |-> hit]
    /\ UNCHANGED <<loaded, spiderfy, circleOpacity, iconOpacity, camera, leafRequests>>
    /\ UNCHANGED layoutVars

\* the callback of getClusterExpansionZoom, lines 184-198
ExpansionZoomCallback ==
    \E k \in 1 .. Len(zoomRequests), o \in ZoomOutcomes :
        LET req == zoomRequests[k] IN
        /\ zoomRequests' = RemoveAt(zoomRequests, k)
        /\ lastCall' = [handler |-> "zoomCallback", outcome |-> o, lngLat |-> req.lngLat]
        /\ IF o.err \/ NoZoom(o)
             THEN UNCHANGED <<camera, leafRequests>>
             ELSE IF ZoomBeyondClusters(o.zoom)
                    THEN /\ Len(leafRequests) < MaxPending
                         /\ leafRequests' =
                               spiderFyCluster(leafRequests, req.clusterId, req.lngLat)
                         /\ camera' = [camera EXCEPT !.center = req.lngLat]
                    ELSE /\ camera' = [center |-> req.lngLat, zoom |-> o.zoom]
                         /\ UNCHANGED leafRequests
        /\ UNCHANGED <<loaded, spiderfy, circleOpacity, iconOpacity, cleared>>
        /\ UNCHANGED layoutVars

\* the callback of getClusterLeaves, lines 247-283
ClusterLeavesCallback ==
    \E k \in 1 .. Len(leafRequests) :
        LET req == leafRequests[k] IN
        \E o \in LeafOutcomes(req.clusterId) :
            /\ leafRequests' = RemoveAt(leafRequests, k)
            /\ IF ~o.error /\ o.hasFeatures /\ Len(o.features) > 0
                 THEN /\ spiderfy' = SpiderfyGeoJson(o.features, req.lngLat)
                      /\ circleOpacity' = OpacityDimClusters
                      /\ iconOpacity' = OpacityDimPoints
                      /\ lastCall' = [handler |-> "leavesCallback",
                                      layout |-> ChooseLayout(Len(o.features))]
                 ELSE /\ UNCHANGED <<spiderfy, circleOpacity, iconOpacity>>
                      /\ lastCall' = [handler |-> "leavesCallback",
                                      layout |-> "none"]
            /\ UNCHANGED <<loaded, camera, zoomRequests, cleared>>
            /\ UNCHANGED layoutVars

\* a slip: the source emptied, the opacities left dimmed
deletePointsSpiderfyKeepDim(event) ==
    /\ IF loaded
         THEN spiderfy' = << >>
         ELSE UNCHANGED spiderfy
    /\ UNCHANGED <<circleOpacity, iconOpacity>>
    /\ cleared' = TRUE
    /\ lastCall' = [handler |-> event]
    /\ UNCHANGED <<loaded, camera, zoomRequests, leafRequests>>
    /\ UNCHANGED layoutVars

\* lines 287-298, called with the name of the event that dispatched it
deletePointsSpiderfy(event) ==
    /\ IF loaded
         THEN /\ spiderfy' = << >>
              /\ circleOpacity' = OpacityNormal
              /\ iconOpacity' = OpacityNormal
         ELSE UNCHANGED <<spiderfy, circleOpacity, iconOpacity>>
    /\ cleared' = TRUE
    /\ lastCall' = [handler |-> event]
    /\ UNCHANGED <<loaded, camera, zoomRequests, leafRequests>>
    /\ UNCHANGED layoutVars

\* map.on('zoomstart', deletePointsSpiderfy)
ZoomStart == deletePointsSpiderfy("zoomstart")

\* map.on('touchstart', deletePointsSpiderfy)
TouchStart == deletePointsSpiderfy("touchstart")

-----------------------------------------------------------------------------
(* Specifications *)

IdleFrame == [pc |-> "idle"]

AppInit ==
    /\ loaded = FALSE
    /\ spiderfy = << >>
    /\ circleOpacity = OpacityNormal
    /\ iconOpacity = OpacityNormal
    /\ camera = mapOptions
    /\ zoomRequests = << >>
    /\ leafRequests = << >>
    /\ cleared = FALSE
    /\ lastCall = [handler |-> "none"]

Init ==
    /\ count = 0
    /\ circle = IdleFrame
    /\ spiral = IdleFrame
    /\ AppInit

Next ==
    \/ Load
    \/ centerMapToCluster
    \/ ExpansionZoomCallback
    \/ ClusterLeavesCallback
    \/ ZoomStart
    \/ TouchStart

Spec == Init /\ [][Next]_vars

LayoutInit ==
    /\ count \in -MinCountBelow .. MaxCount
    /\ circle = CircleEntry(count)
    /\ spiral = SpiralEntry(count)
    /\ AppInit

LayoutNext ==
    \/ CircleIterate
    \/ CircleReturn
    \/ SpiralIterate
    \/ SpiralReturn

LayoutSpec == LayoutInit /\ [][LayoutNext]_vars

-----------------------------------------------------------------------------
(* Properties of the layout functions, checked under LayoutSpec *)

Returned(f) == f.pc = "returned"
Dist2(p) == p[1] * p[1] + p[2] * p[2]
Abs(a) == IF a < 0 THEN -a ELSE a
Near(p, q) == Abs(p[1] - q[1]) <= Tolerance /\ Abs(p[2] - q[2]) <= Tolerance
CircleRadius == CircleLeavesSeparation * LengthScale

\* C1: for every count >= 1, each of the two layout functions returns a
\* sequence of exactly count offsets.
C1_ExactlyCountOffsets ==
    count >= 1 =>
        /\ Returned(circle) => Len(circle.points) = count
        /\ Returned(spiral) => Len(spiral.points) = count

C1_Witness ==
    /\ count > LayoutThreshold
    /\ Returned(circle) /\ Len(circle.points) = count
    /\ Returned(spiral) /\ Len(spiral.points) = count

\* C3: for every count < 1 (zero and negative), both layout functions go
\* straight to their return (the division by a zero count yields Infinity and
\* raises nothing) and return the empty sequence.
C3_EmptyBelowOne ==
    count < 1 =>
        /\ circle.pc = "loop" => ENABLED CircleReturn
        /\ spiral.pc = "loop" => ENABLED SpiralReturn
        /\ Returned(circle) => circle.points = << >>
        /\ Returned(spiral) => spiral.points = << >>

C3_Witness ==
    /\ count = 0
    /\ ~circle.theta.finite
    /\ Returned(circle) /\ circle.points = << >>
    /\ Returned(spiral) /\ spiral.points = << >>

\* C4: in the spiral layout the first point is placed at leg length 25, the
\* accumulated angle is positive once a point is placed, and every further
\* point is placed at a strictly greater leg length and lies strictly farther
\* from the anchor than the point before it.
C4_SpiralRadiusGrows ==
    spiral.pc # "idle" =>
        /\ Len(spiral.legs) = Len(spiral.points)
        /\ spiral.i >= 1 =>
              /\ spiral.angle > 0
              /\ spiral.legs[1] = legLengthStart * LengthScale
              /\ spiral.legLength > spiral.legs[Len(spiral.legs)]
        /\ \A k \in 1 .. Len(spiral.points) - 1 :
              /\ spiral.legs[k + 1] > spiral.legs[k]
              /\ Dist2(spiral.points[k + 1]) > Dist2(spiral.points[k])

C4_Witness ==
    /\ count = MaxCount
    /\ Returned(spiral)
    /\ Len(spiral.points) = count
    /\ Dist2(spiral.points[count]) > Dist2(spiral.points[count - 1])

\* C5: for every count >= 2 the circular layout places no two leaves at the
\* same point, and the angles of any two leaves differ modulo a full turn.
C5_CirclePointsDistinct ==
    (circle.pc # "idle" /\ count >= 2) =>
        \A j, k \in 1 .. Len(circle.points) :
            j # k =>
                /\ circle.points[j] # circle.points[k]
                /\ (circle.theta.val * (j - 1)) % TWO_PI
                      # (circle.theta.val * (k - 1)) % TWO_PI

C5_Witness ==
    /\ count = LayoutThreshold
    /\ Returned(circle)
    /\ Len(circle.points) = count
    /\ circle.points[1] # circle.points[count]

\* the point at radius 80 and angle i * (2 pi / n), the angle rounded once
CirclePointAt(i, n) ==
    LET angle == RoundDiv(TWO_PI * i, n)
    IN  <<Project(CircleRadius, Cos(angle)), Project(CircleRadius, Sin(angle))>>

\* C6: for every count >= 1 the circular layout puts offset i at radius 80
\* from the anchor, at angle i * (2 pi / count), untranslated: index 0 is
\* exactly (80, 0), and count = 1 returns the single offset (80, 0).
C6_CircleFixedRadius ==
    (circle.pc # "idle" /\ count >= 1) =>
        /\ \A k \in 1 .. Len(circle.points) :
              LET p == circle.points[k] IN
              /\ (CircleRadius - Tolerance) * (CircleRadius - Tolerance) <= Dist2(p)
              /\ Dist2(p) <= (CircleRadius + Tolerance) * (CircleRadius + Tolerance)
              /\ Near(p, CirclePointAt(k - 1, count))
              /\ k = 1 => p = <<CircleRadius, 0>>
        /\ (count = 1 /\ Returned(circle)) => circle.points = << <<CircleRadius, 0>> >>

C6_Witness ==
    /\ count = 1
    /\ Returned(circle)
    /\ circle.points = << <<CircleRadius, 0>> >>

-----------------------------------------------------------------------------
(* Properties of the map application, checked under Spec *)

CircleOffsets == [n \in 0 .. MaxLeaves |-> calculateSpiderfiedPositionsCircle(n)]
SpiralOffsets == [n \in 0 .. MaxLeaves |-> calculateSpiderfiedPositions(n)]
IconOffsets == [k \in 1 .. Len(spiderfy) |-> spiderfy[k].properties.iconOffset]
Dimmed == circleOpacity = OpacityDimClusters /\ iconOpacity = OpacityDimPoints
Undimmed == circleOpacity = OpacityNormal /\ iconOpacity = OpacityNormal

\* C2: the leaves callback lays n leaves out on the circle for 1 <= n <= 10
\* and on the spiral for n > 10, whatever the cluster or the click.
C2_LayoutByThreshold ==
    LET n == Len(spiderfy) IN
    /\ (1 <= n /\ n <= LayoutThreshold) => IconOffsets = CircleOffsets[n]
    /\ n > LayoutThreshold => IconOffsets = SpiralOffsets[n]
    /\ (lastCall.handler = "leavesCallback" /\ lastCall.layout # "none") =>
          lastCall.layout = IF n <= LayoutThreshold THEN "circle" ELSE "spiral"

C2_Witness ==
    /\ Len(spiderfy) = LayoutThreshold
    /\ lastCall.handler = "leavesCallback"
    /\ lastCall.layout = "circle"
    /\ IconOffsets = CircleOffsets[LayoutThreshold]
    /\ IconOffsets # SpiralOffsets[LayoutThreshold]

\* the offsets the threshold selects for n leaves
ChosenOffsets(n) == IF n <= LayoutThreshold THEN CircleOffsets[n] ELSE SpiralOffsets[n]

\* C7: a non-empty 'spiderfy' collection holds the n leaves of one cluster in
\* their order; feature i keeps leaf i's type and properties, carries the
\* i-th offset of the chosen layout as iconOffset (never undefined), and is a
\* Point at the clicked coordinate.
C7_FeaturesAlignedWithLeaves ==
    spiderfy # << >> =>
        \E c \in ClusterIds :
            \A k \in 1 .. Len(spiderfy) :
                LET f == spiderfy[k]
                    leaf == Leaf(c, k)
                IN  /\ f.type = leaf.type
                    /\ \A key \in DOMAIN leaf.properties :
                          f.properties[key] = leaf.properties[key]
                    /\ f.properties.iconOffset # Undefined
                    /\ f.properties.iconOffset = ChosenOffsets(Len(spiderfy))[k]
                    /\ f.geometry.type = "Point"
                    /\ f.geometry.coordinates
                          = <<ClickLngLat(c).lng, ClickLngLat(c).lat>>

C7_Witness ==
    /\ Len(spiderfy) = MaxLeaves
    /\ spiderfy[MaxLeaves].properties.id = Leaf(2, MaxLeaves).properties.id
    /\ spiderfy[MaxLeaves].properties.iconOffset = SpiralOffsets[MaxLeaves][MaxLeaves]
    /\ spiderfy[MaxLeaves].geometry.coordinates # Leaf(2, MaxLeaves).geometry.coordinates

\* C8: once the map has loaded, the 'spiderfy' source holds a feature exactly
\* when the two layers are dimmed (0.6 and 0.5), and is empty exactly when
\* both opacities are 1.
C8_DimmingMatchesSource ==
    loaded =>
        /\ spiderfy # << >> <=> Dimmed
        /\ spiderfy = << >> <=> Undimmed

C8_Witness ==
    /\ loaded
    /\ spiderfy # << >>
    /\ Dimmed
    /\ leafRequests = << >>

\* C9: after a zoomstart or touchstart has run deletePointsSpiderfy, and until
\* the next click on a cluster, the 'spiderfy' source is empty and both
\* opacities are 1.
C9_StaysClearedUntilClick ==
    cleared => (spiderfy = << >> /\ Undimmed)

\* what one step of the click handler or of its callback may change
C10_Step ==
    LET o == lastCall'.outcome
        display == <<spiderfy, circleOpacity, iconOpacity>>
    IN
    /\ Len(leafRequests') > Len(leafRequests) =>
          /\ lastCall'.handler = "zoomCallback"
          /\ ~o.err /\ o.hasZoom /\ o.zoom > clusterMaxZoom
    /\ lastCall'.handler = "zoomCallback" =>
          /\ display' = display
          /\ (~o.err /\ o.hasZoom /\ o.zoom > clusterMaxZoom) =>
                /\ camera' = [center |-> lastCall'.lngLat, zoom |-> camera.zoom]
                /\ Len(leafRequests') = Len(leafRequests) + 1
                /\ leafRequests'[Len(leafRequests')].lngLat = lastCall'.lngLat
          /\ (~o.err /\ o.hasZoom /\ o.zoom # 0 /\ o.zoom <= clusterMaxZoom) =>
                /\ camera' = [center |-> lastCall'.lngLat, zoom |-> o.zoom]
                /\ leafRequests' = leafRequests
          /\ (o.err \/ ~o.hasZoom \/ o.zoom = 0) =>
                /\ camera' = camera
                /\ leafRequests' = leafRequests
    /\ lastCall'.handler = "click" =>
          /\ display' = display
          /\ camera' = camera
          /\ leafRequests' = leafRequests
          /\ ~lastCall'.hit => zoomRequests' = zoomRequests

====
